---- MODULE Spec2Model ----
(***************************************************************************)
(* A model of aten/src/ATen/gen.py, the top-level entry point of ATen's    *)
(* code generation: the FileManager (declare / write / check), the         *)
(* normalisation of return names, the aggregation of operator              *)
(* registrations and the script's run over every (backend, density) pair.  *)
(*                                                                         *)
(* Texts are modelled as sequences: a generated file's content is the      *)
(* sequence of registration codes rendered into it, a dependency list is   *)
(* the sequence of its ';'-terminated names.  Registration and schema      *)
(* codes are natural numbers; their numeric order stands for the           *)
(* lexicographic order of the texts.                                       *)
(***************************************************************************)
EXTENDS Integers, Sequences, FiniteSets, TLC

VARIABLES
    pc,                    \* position of the script (or of a driver)
    err,                   \* the exception that ended the run, "" if none
    options,               \* parsed command line (gen.py:30-73)
    declarations,          \* the parsed declarations (gen.py:488-494), <<>> before
    output_declarations,   \* result of postprocess_output_declarations
    fm,                    \* the three FileManager objects (gen.py:173-175)
    disk,                  \* path -> content of the files that exist
    touched,               \* paths opened for writing by _write_if_changed
    top_env,               \* the shared environment (gen.py:203-216)
    per_op_registrations,  \* defaultdict(list) or None (gen.py:495)
    schema_registrations,  \* list or None (gen.py:496)
    type_index,            \* loop index of "for backend, density in iterate_types()"
    calls,                 \* history: per file manager, the calls made on it
    pair_log,              \* history: per (backend, density), what its iteration did
    passed                 \* history: the registrations given to add_op_registrations

vars == <<pc, err, options, declarations, output_declarations, fm, disk, touched,
          top_env, per_op_registrations, schema_registrations, type_index,
          calls, pair_log, passed>>

----------------------------------------------------------------------------
(* Bounds of the model *)

\* most declarations in a run
MaxDecls == 2
\* most names in --backend_whitelist
MaxBackendWhitelist == 1
\* most calls the FileManager driver makes on one manager
MaxCalls == 4
\* most returns of a declaration given to the normaliser driver
MaxReturns == 3

----------------------------------------------------------------------------
(* Generic helpers *)

Range(s) == {s[i] : i \in 1..Len(s)}

SeqsUpTo(S, n) == UNION {[1..k -> S] : k \in 0..n}

\* the sequences of at most n different elements of S
DistinctSeqsUpTo(S, n) ==
    {q \in SeqsUpTo(S, n) : \A i, j \in 1..Len(q) : i # j => q[i] # q[j]}

RECURSIVE SelectSeqIdx(_, _, _)
\* the subsequence of s at the indices i (in order) for which keep[i]
SelectSeqIdx(s, keep, i) ==
    IF i > Len(s) THEN <<>>
    ELSE (IF keep[i] THEN <<s[i]>> ELSE <<>>) \o SelectSeqIdx(s, keep, i + 1)

Count(s, x) == Cardinality({i \in 1..Len(s) : s[i] = x})

----------------------------------------------------------------------------
(* FileManager (gen.py:92-148) *)

\* gen.py:43 the default of --install_dir, and gen.py:85 core_install_dir
install_dir == "ATen"
core_install_dir == install_dir \o "/core"

Partitions == {"core", "common", "cuda"}

\* gen.py:173-175: core_file_manager = FileManager(core_install_dir),
\* file_manager = FileManager(), cuda_file_manager = FileManager()
FileManager(dir) ==
    [install_dir |-> dir, filenames |-> {}, outputs_written |-> FALSE,
     undeclared_files |-> <<>>]

\* '{}/{}'.format(self.install_dir, filename)
FullName(m, filename) == m.install_dir \o "/" \o filename

\* gen.py:101 the guard of will_write
will_write_raises(m) == m.outputs_written

\* gen.py:99-105, when it does not raise
will_write(m, filename) ==
    [m EXCEPT !.filenames = @ \cup {FullName(m, filename)}]

\* the comparison left out: every content counts as new
contents_differ_always(d, path, contents) == TRUE

\* gen.py:108-113: the content on disk differs from the new one; an absent
\* or unreadable file reads as None, which differs from every content
contents_differ(d, path, contents) ==
    IF path \in DOMAIN d THEN d[path] # contents ELSE TRUE

\* gen.py:107-115
_write_if_changed(d, path, contents) ==
    IF contents_differ(d, path, contents)
    THEN [p \in DOMAIN d \cup {path} |-> IF p = path THEN contents ELSE d[p]]
    ELSE d

\* the paths _write_if_changed opens for writing
_touch(t, d, path, contents) ==
    IF contents_differ(d, path, contents) THEN t \cup {path} ELSE t

\* write, forgetting to take a written name off the pending set
write_keeps_pending(m, filename) ==
    LET path == FullName(m, filename) IN
    IF path \notin m.filenames
    THEN [m EXCEPT !.undeclared_files = Append(@, path)]
    ELSE m

\* write, not recording a write to an undeclared name
write_drops_undeclared(m, filename) ==
    LET path == FullName(m, filename) IN
    IF path \notin m.filenames
    THEN m
    ELSE [m EXCEPT !.filenames = @ \ {path}]

\* gen.py:135-138: the bookkeeping of write
write(m, filename) ==
    LET path == FullName(m, filename) IN
    IF path \notin m.filenames
    THEN [m EXCEPT !.undeclared_files = Append(@, path)]
    ELSE [m EXCEPT !.filenames = @ \ {path}]

\* an exception of check_all_files_written and the names its message lists
CheckFailure(kind, undeclared, never_written) ==
    [kind |-> kind, undeclared |-> undeclared, never_written |-> never_written]

\* check_all_files_written with its two tests in the other order
check_pending_first(m) ==
    IF Cardinality(m.filenames) > 0
    THEN CheckFailure("never_written", <<>>, m.filenames)
    ELSE IF Len(m.undeclared_files) > 0
    THEN CheckFailure("undeclared_files", m.undeclared_files, {})
    ELSE CheckFailure("", <<>>, {})

\* check_all_files_written without its test of the pending names
check_ignores_pending(m) ==
    IF Len(m.undeclared_files) > 0
    THEN CheckFailure("undeclared_files", m.undeclared_files, {})
    ELSE CheckFailure("", <<>>, {})

\* gen.py:140-148: the exception the check raises (kind "" when it returns):
\* the undeclared writes first and, only when there are none, the declared
\* names still pending
check_all_files_written(m) ==
    IF Len(m.undeclared_files) > 0
    THEN CheckFailure("undeclared_files", m.undeclared_files, {})
    ELSE IF Cardinality(m.filenames) > 0
    THEN CheckFailure("never_written", <<>>, m.filenames)
    ELSE CheckFailure("", <<>>, {})

----------------------------------------------------------------------------
(* write_outputs (gen.py:117-123) *)

\* Python's order of the path strings the model uses, as sorted() at
\* gen.py:122 puts them (code point order)
LexOrder ==
    << "ATen/BackendSelectRegister.cpp", "ATen/CPUType.cpp", "ATen/CPUType.h",
       "ATen/CUDAType.cpp", "ATen/CUDAType.h", "ATen/Declarations.yaml",
       "ATen/Functions.h", "ATen/LegacyTHFunctionsCPU.cpp",
       "ATen/LegacyTHFunctionsCPU.h", "ATen/LegacyTHFunctionsCUDA.cpp",
       "ATen/LegacyTHFunctionsCUDA.h", "ATen/MkldnnCPUType.cpp",
       "ATen/MkldnnCPUType.h", "ATen/MkldnnCUDAType.cpp",
       "ATen/MkldnnCUDAType.h", "ATen/NativeFunctions.h",
       "ATen/QuantizedCPUType.cpp", "ATen/QuantizedCPUType.h",
       "ATen/QuantizedCUDAType.cpp", "ATen/QuantizedCUDAType.h",
       "ATen/SchemaRegister.cpp", "ATen/SparseCPUType.cpp",
       "ATen/SparseCPUType.h", "ATen/SparseCUDAType.cpp",
       "ATen/SparseCUDAType.h", "ATen/TypeDefault.cpp", "ATen/TypeDefault.h",
       "ATen/VulkanType.cpp", "ATen/VulkanType.h", "ATen/a.h", "ATen/b.h",
       "ATen/core/ATenOpList.cpp", "ATen/core/TensorBody.h",
       "ATen/core/TensorFunctions.cpp", "ATen/core/TensorMethods.cpp",
       "ATen/pt_op_register_ns--add.cpp", "ATen/pt_op_register_ns--missing.cpp",
       "ATen/pt_op_register_ns--sub.cpp" >>

\* sorted(self.filenames)
sorted_names(S) == SelectSeq(LexOrder, LAMBDA n : n \in S)

\* the list with the names in descending order
outputs_list_reversed(m) ==
    LET names == sorted_names(m.filenames) IN
    [i \in 1..Len(names) |-> names[Len(names) + 1 - i] \o ";"]

\* ''.join(name + ";" for name in sorted(self.filenames)), kept as the
\* sequence of its pieces
outputs_list(m) ==
    LET names == sorted_names(m.filenames) IN
    [i \in 1..Len(names) |-> names[i] \o ";"]

\* write_outputs, forgetting to close the manager
write_outputs_stays_open(m) == m

\* gen.py:123
write_outputs(m) == [m EXCEPT !.outputs_written = TRUE]

----------------------------------------------------------------------------
(* The file managers with the disk and the call history: the state every   *)
(* FileManager method acts on                                              *)

\* one call on a file manager: the method, the path, whether it raised, the
\* text a write was given, and the names a raised check reported
Call(op, file, raised, text, report) ==
    [op |-> op, file |-> file, raised |-> raised, text |-> text, report |-> report]

NoReport == CheckFailure("", <<>>, {})

\* fm.will_write(filename) on manager p; a raise ends the script
io_will_write(io, p, filename) ==
    IF io.err # "" THEN io
    ELSE IF will_write_raises(io.fm[p])
    THEN [io EXCEPT !.err = "will_write",
                    !.calls[p] = Append(@, Call("will_write", FullName(io.fm[p], filename), TRUE, <<>>, NoReport))]
    ELSE [io EXCEPT !.fm[p] = will_write(@, filename),
                    !.calls[p] = Append(@, Call("will_write", FullName(io.fm[p], filename), FALSE, <<>>, NoReport))]

\* fm.write(filename, template, env) on manager p (gen.py:125-138); contents
\* is the text the template renders
io_write(io, p, filename, contents) ==
    IF io.err # "" THEN io
    ELSE LET path == FullName(io.fm[p], filename) IN
         [io EXCEPT !.disk = _write_if_changed(@, path, contents),
                    !.touched = _touch(@, io.disk, path, contents),
                    !.fm[p] = write(@, filename),
                    !.calls[p] = Append(@, Call("write", path, FALSE, contents, NoReport))]

\* fm.write_outputs(filename) on manager p (gen.py:117-123)
io_write_outputs(io, p, path) ==
    IF io.err # "" THEN io
    ELSE [io EXCEPT !.disk = _write_if_changed(@, path, outputs_list(io.fm[p])),
                    !.touched = _touch(@, io.disk, path, outputs_list(io.fm[p])),
                    !.fm[p] = write_outputs(@),
                    !.calls[p] = Append(@, Call("write_outputs", path, FALSE,
                                                   outputs_list(io.fm[p]), NoReport))]

\* fm.check_all_files_written() on manager p (gen.py:140-148)
io_check(io, p) ==
    IF io.err # "" THEN io
    ELSE LET e == check_all_files_written(io.fm[p]) IN
         [io EXCEPT !.err = e.kind,
                    !.calls[p] = Append(@, Call("check_all_files_written", "", e.kind # "", <<>>, e))]

RECURSIVE io_writes(_, _, _)
\* a run of fm.write calls on manager p: ws is a sequence of <<filename, contents>>
io_writes(io, p, ws) ==
    IF ws = <<>> THEN io
    ELSE io_writes(io_write(io, p, Head(ws)[1], Head(ws)[2]), p, Tail(ws))

RECURSIVE io_will_writes(_, _, _)
\* a run of fm.will_write calls on manager p
io_will_writes(io, p, fs) ==
    IF fs = <<>> THEN io
    ELSE io_will_writes(io_will_write(io, p, Head(fs)), p, Tail(fs))

IO == [fm |-> fm, disk |-> disk, touched |-> touched, calls |-> calls, err |-> err]

\* the next state holds io; a raise ends the run
SetIO(io, next_pc) ==
    /\ fm' = io.fm
    /\ disk' = io.disk
    /\ touched' = io.touched
    /\ calls' = io.calls
    /\ err' = io.err
    /\ pc' = IF io.err # "" THEN "raised" ELSE next_pc

InitManagers ==
    [p \in Partitions |->
        FileManager(IF p = "core" THEN core_install_dir ELSE install_dir)]

NoCalls == [p \in Partitions |-> <<>>]

----------------------------------------------------------------------------
(* Command line, declarations and registrations *)

\* an optional value: None, or a set of names
None == [is_none |-> TRUE, items |-> {}]
Some(S) == [is_none |-> FALSE, items |-> S]

\* operator names, as the characters of `namespace`::`operator name`
ns_add == <<"n", "s", ":", ":", "a", "d", "d">>
ns_sub == <<"n", "s", ":", ":", "s", "u", "b">>
ns_missing == <<"n", "s", ":", ":", "m", "i", "s", "s", "i", "n", "g">>

RECURSIVE Join(_)
\* the string of a sequence of characters
Join(cs) == IF cs = <<>> THEN "" ELSE Head(cs) \o Join(Tail(cs))

\* opname.replace(':', '-')
replace_colons(opname) ==
    [i \in 1..Len(opname) |-> IF opname[i] = ":" THEN "-" ELSE opname[i]]

\* gen.py:397-398
gen_per_op_registration_filename(opname) ==
    "pt_op_register_" \o Join(replace_colons(opname)) \o ".cpp"

\* a return of a declaration: a dict that may lack the key 'name'.  A
\* declaration's 'buffers' is "absent" (no such key), "None" or "list".
Unnamed == [named |-> FALSE, name |-> ""]
Named(n) == [named |-> TRUE, name |-> n]

\* the declarations the runs draw from: an operator registered by every
\* backend, one registered by the default type only, an overload whose
\* unnamed return follows a named one, and an overload with a named return
DeclSamples ==
    { [operator_name |-> ns_add, schema |-> 2, dispatch |-> TRUE,
       inplace |-> FALSE, returns |-> <<Unnamed>>, buffers |-> "absent"],
      [operator_name |-> ns_sub, schema |-> 3, dispatch |-> FALSE,
       inplace |-> TRUE, returns |-> <<Unnamed, Named("grad")>>, buffers |-> "None"],
      [operator_name |-> ns_add, schema |-> 1, dispatch |-> TRUE,
       inplace |-> FALSE, returns |-> <<Named("values"), Unnamed>>, buffers |-> "absent"],
      [operator_name |-> ns_add, schema |-> 4, dispatch |-> TRUE,
       inplace |-> FALSE, returns |-> <<Named("values")>>, buffers |-> "list"] }

\* the names --op_registration_whitelist draws from
WhitelistNames == {ns_add, ns_missing}

OpWhitelists == {None} \cup {Some(S) : S \in SUBSET WhitelistNames}

\* gen.py:184-187
backends == <<"CPU", "CUDA">>
densities == <<"Dense", "Sparse", "Mkldnn">>
quantized_backends == <<"QuantizedCPU", "QuantizedCUDA">>

\* the names --backend_whitelist draws from: every density tag + backend
BackendNames ==
    {"CPU", "SparseCPU", "MkldnnCPU", "CUDA", "SparseCUDA", "MkldnnCUDA",
     "QuantizedCPU", "QuantizedCUDA", "Vulkan"}

BackendWhitelists ==
    {None} \cup {Some(S) : S \in {T \in SUBSET BackendNames :
                                     Cardinality(T) <= MaxBackendWhitelist}}

Options ==
    [output_dependencies : BOOLEAN, vulkan : BOOLEAN,
     per_op_registration : BOOLEAN, force_schema_registration : BOOLEAN,
     op_registration_whitelist : OpWhitelists,
     backend_whitelist : BackendWhitelists]

\* the value of --output-dependencies when it is given
deps_path == "outputs.txt"

\* gen.py:203-216, the lists the model follows
InitTopEnv ==
    [cpu_type_headers |-> <<>>, cuda_type_headers |-> <<>>,
     function_registrations |-> <<>>, type_ids |-> <<>>]

----------------------------------------------------------------------------
(* postprocess_output_declarations (gen.py:229-251) *)

Digits == <<"0", "1", "2", "3", "4", "5", "6", "7", "8", "9">>

RECURSIVE str(_)
\* str(n) for a natural number n
str(n) == IF n < 10 THEN Digits[n + 1] ELSE str(n \div 10) \o Digits[(n % 10) + 1]

\* the name given to every unnamed return: 'out' + str(n) also for a lone return
synthesized_name_indexed(inplace, nreturns, n) ==
    IF inplace THEN "self" ELSE "out" \o str(n)

\* the name given to every unnamed return without its index
synthesized_name_out_always(inplace, nreturns, n) ==
    IF inplace THEN "self" ELSE "out"

\* gen.py:236-241: the name given to the unnamed return at index n (from 0)
\* of a declaration with nreturns returns
synthesized_name(inplace, nreturns, n) ==
    IF inplace THEN "self"
    ELSE IF nreturns = 1 THEN "out"
    ELSE "out" \o str(n)

RECURSIVE name_returns_lone_unnamed(_, _, _, _)
\* the loop asserting that an unnamed return is the declaration's first return
name_returns_lone_unnamed(decl, i, has_named_ret, acc) ==
    IF i > Len(decl.returns) THEN [failed |-> FALSE, returns |-> acc]
    ELSE IF ~decl.returns[i].named
    THEN IF i > 1
         THEN [failed |-> TRUE, returns |-> acc \o SubSeq(decl.returns, i, Len(decl.returns))]
         ELSE name_returns_lone_unnamed(decl, i + 1, has_named_ret,
                  Append(acc, Named(synthesized_name(decl.inplace, Len(decl.returns), i - 1))))
    ELSE name_returns_lone_unnamed(decl, i + 1, TRUE, Append(acc, decl.returns[i]))

RECURSIVE name_returns_unasserted(_, _, _, _)
\* the loop without its assertion: an unnamed return is named wherever it is
name_returns_unasserted(decl, i, has_named_ret, acc) ==
    IF i > Len(decl.returns) THEN [failed |-> FALSE, returns |-> acc]
    ELSE IF ~decl.returns[i].named
    THEN name_returns_unasserted(decl, i + 1, has_named_ret,
             Append(acc, Named(synthesized_name(decl.inplace, Len(decl.returns), i - 1))))
    ELSE name_returns_unasserted(decl, i + 1, TRUE, Append(acc, decl.returns[i]))

RECURSIVE name_returns(_, _, _, _)
\* gen.py:232-243: the loop over one declaration's returns from index i
\* (from 1), acc the returns already passed; failed when the assertion
\* "not has_named_ret" fails
name_returns(decl, i, has_named_ret, acc) ==
    IF i > Len(decl.returns) THEN [failed |-> FALSE, returns |-> acc]
    ELSE IF ~decl.returns[i].named
    THEN IF has_named_ret
         THEN [failed |-> TRUE, returns |-> acc \o SubSeq(decl.returns, i, Len(decl.returns))]
         ELSE name_returns(decl, i + 1, has_named_ret,
                  Append(acc, Named(synthesized_name(decl.inplace, Len(decl.returns), i - 1))))
    ELSE name_returns(decl, i + 1, TRUE, Append(acc, decl.returns[i]))

\* gen.py:245-248: a 'buffers' key holding None is deleted
remove_key_if_none(buffers) == IF buffers = "None" THEN "absent" ELSE buffers

RECURSIVE postprocess_from(_, _, _)
postprocess_from(decls, i, acc) ==
    IF i > Len(decls) THEN [failed |-> FALSE, declarations |-> acc]
    ELSE LET r == name_returns(decls[i], 1, FALSE, <<>>) IN
         IF r.failed THEN [failed |-> TRUE, declarations |-> acc]
         ELSE postprocess_from(decls, i + 1,
                  Append(acc, [decls[i] EXCEPT !.returns = r.returns,
                                               !.buffers = remove_key_if_none(@)]))

\* gen.py:229-251: the normalised declarations, or the failed assertion
postprocess_output_declarations(decls) == postprocess_from(decls, 1, <<>>)

----------------------------------------------------------------------------
(* Backends and the iteration over (backend, density) pairs *)

\* gen.py:177-182
backend_to_devicetype(backend) ==
    IF backend = "QuantizedCPU" THEN "CPU"
    ELSE IF backend = "QuantizedCUDA" THEN "CUDA"
    ELSE backend

\* gen.py:219-220
is_whitelisted_backend(opts, backend) ==
    opts.backend_whitelist.is_none \/ backend \in opts.backend_whitelist.items

\* gen.py:222-223
is_cuda_backend(backend) == backend \in {"QuantizedCUDA", "CUDA"}

\* gen.py:290: density if density != 'Dense' else ''
density_tag(density) == IF density # "Dense" THEN density ELSE ""

\* gen.py:294 env['Backend'] and gen.py:414 full_backend
full_backend(pair) == density_tag(pair[2]) \o pair[1]

\* gen.py:292 env['Type']
type_name(pair) == density_tag(pair[2]) \o pair[1] \o "Type"

\* gen.py:385-386: the product of backends and densities, in loop order
backend_density_product ==
    [i \in 1..(Len(backends) * Len(densities)) |->
        <<backends[((i - 1) \div Len(densities)) + 1],
          densities[((i - 1) % Len(densities)) + 1]>>]

\* the iteration passing over no pair
skipped_by_iteration_never(pair) == FALSE

\* gen.py:387: the pairs the iteration passes over
skipped_by_iteration(pair) == pair[2] = "Mkldnn" /\ pair[1] # "CPU"

\* gen.py:393: the Vulkan pair is yielded only with --vulkan
vulkan_types(opts) == IF opts.vulkan THEN <<<<"Vulkan", "Dense">>>> ELSE <<>>

\* gen.py:384-394: the (backend, density) tuples in the order they are yielded
iterate_types(opts) ==
    SelectSeq(backend_density_product, LAMBDA pair : ~skipped_by_iteration(pair))
        \o [i \in 1..Len(quantized_backends) |-> <<quantized_backends[i], "Dense">>]
        \o vulkan_types(opts)

\* every pair one can ask for, generated or not
AllPairs ==
    backend_density_product
        \o [i \in 1..Len(quantized_backends) |-> <<quantized_backends[i], "Dense">>]
        \o <<<<"Vulkan", "Dense">>>>

PairIndex(pair) == CHOOSE i \in 1..Len(AllPairs) : AllPairs[i] = pair

\* the choice of manager overlooking the quantized CUDA backend
declare_partition_by_name(pair) == IF pair[1] = "CUDA" THEN "cuda" ELSE "common"

\* the manager a pair's files are declared in (gen.py:417-419)
declare_partition(pair) == IF is_cuda_backend(pair[1]) THEN "cuda" ELSE "common"

\* the manager a pair's files are written through (gen.py:358-360)
write_partition(pair) ==
    IF backend_to_devicetype(pair[1]) = "CUDA" THEN "cuda" ELSE "common"

\* gen.py:413-428: the names one iteration of declare_outputs' loop reserves
declared_for_pair(opts, pair) ==
    IF ~is_whitelisted_backend(opts, full_backend(pair)) THEN <<>>
    ELSE <<full_backend(pair) \o "Type" \o ".h", full_backend(pair) \o "Type" \o ".cpp">>
         \o (IF pair[1] = "CPU" \/ pair[1] = "CUDA"
             THEN <<"LegacyTHFunctions" \o pair[1] \o ".h",
                    "LegacyTHFunctions" \o pair[1] \o ".cpp">>
             ELSE <<>>)

RECURSIVE SetToSeq(_)
\* the elements of a set in the order a loop over it visits them
SetToSeq(S) ==
    IF S = {} THEN <<>>
    ELSE LET x == CHOOSE y \in S : TRUE IN <<x>> \o SetToSeq(S \ {x})

RECURSIVE declare_types(_, _, _)
\* gen.py:413-428
declare_types(io, opts, pairs) ==
    IF pairs = <<>> THEN io
    ELSE declare_types(
             io_will_writes(io, declare_partition(Head(pairs)),
                            declared_for_pair(opts, Head(pairs))),
             opts, Tail(pairs))

\* the per-operator declarations without the test for a missing whitelist
declare_per_op_unchecked(io, opts) ==
    IF ~opts.per_op_registration \/ io.err # "" THEN io
    ELSE LET ops == SetToSeq(opts.op_registration_whitelist.items) IN
         io_will_writes(io, "common",
             [i \in 1..Len(ops) |-> gen_per_op_registration_filename(ops[i])])

\* gen.py:430-435
declare_per_op(io, opts) ==
    IF ~opts.per_op_registration \/ io.err # "" THEN io
    ELSE IF opts.op_registration_whitelist.is_none
    THEN [io EXCEPT !.err = "per_op_without_whitelist"]
    ELSE LET ops == SetToSeq(opts.op_registration_whitelist.items) IN
         io_will_writes(io, "common",
             [i \in 1..Len(ops) |-> gen_per_op_registration_filename(ops[i])])

\* gen.py:437-438
declare_schema(io, opts) ==
    IF opts.force_schema_registration
    THEN io_will_write(io, "common", "SchemaRegister.cpp")
    ELSE io

\* gen.py:405-438
declare_outputs(io, opts) ==
    LET core == io_will_writes(io, "core",
                    <<"TensorBody.h", "TensorMethods.cpp", "ATenOpList.cpp",
                      "TensorFunctions.cpp">>)
        common == io_will_writes(core, "common",
                    <<"Declarations.yaml", "TypeDefault.cpp", "TypeDefault.h",
                      "Functions.h", "NativeFunctions.h", "BackendSelectRegister.cpp">>)
        types == declare_types(common, opts, iterate_types(opts))
    IN  declare_schema(declare_per_op(types, opts), opts)

----------------------------------------------------------------------------
(* Operator registrations and their aggregation *)

\* an OperatorRegistration as function_wrapper returns it
OperatorRegistration(opname, code, schema) ==
    [operator_name |-> opname, registration_code |-> code,
     schema_registration_code |-> schema]

\* the registrations of the declarations selected by keep, bound to type k
\* (0 the default type, else the pair's index)
registrations_of(decls, keep, k) ==
    LET chosen == SelectSeqIdx(decls, keep, 1) IN
    [i \in 1..Len(chosen) |->
        OperatorRegistration(chosen[i].operator_name, 10 * k + chosen[i].schema,
                             chosen[i].schema)]

\* function_wrapper.create_generic: one registration for every declaration
\* without a backend dispatch, in declaration order
create_generic(decls) ==
    registrations_of(decls, [i \in 1..Len(decls) |-> ~decls[i].dispatch], 0)

\* function_wrapper.create_derived: one registration for every declaration
\* dispatched to the backend, in declaration order
create_derived(pair, decls) ==
    registrations_of(decls, [i \in 1..Len(decls) |-> decls[i].dispatch], PairIndex(pair))

\* per_op_registrations[opname].append(registration) on a defaultdict(list),
\* kept as the sequence of its items in insertion order
per_op_append(items, opname, registration) ==
    IF \E i \in 1..Len(items) : items[i].opname = opname
    THEN [i \in 1..Len(items) |->
            IF items[i].opname = opname
            THEN [items[i] EXCEPT !.registrations = Append(@, registration)]
            ELSE items[i]]
    ELSE Append(items, [opname |-> opname, registrations |-> <<registration>>])

\* the whitelist test with the whitelist ignored
not_whitelisted_never(opts, opname) == FALSE

\* gen.py:278: the registration is filtered out by the whitelist
not_whitelisted_op(opts, opname) ==
    ~opts.op_registration_whitelist.is_none
        /\ opname \notin opts.op_registration_whitelist.items

\* the loop body with the schema collected only for whitelisted operators
add_op_registration_schema_after_filter(agg, opts, reg) ==
    IF not_whitelisted_op(opts, reg.operator_name) THEN agg
    ELSE LET collected ==
                 IF ~agg.schema.is_none
                 THEN [agg EXCEPT !.schema.items = Append(@, reg.schema_registration_code)]
                 ELSE agg
         IN IF opts.per_op_registration
            THEN [collected EXCEPT !.per_op.items =
                      per_op_append(@, reg.operator_name, reg.registration_code)]
            ELSE [collected EXCEPT !.per_type = Append(@, reg.registration_code)]

\* the loop body putting a new registration in front of its list
add_op_registration_prepends(agg, opts, reg) ==
    LET collected ==
            IF ~agg.schema.is_none
            THEN [agg EXCEPT !.schema.items = Append(@, reg.schema_registration_code)]
            ELSE agg
    IN  IF not_whitelisted_op(opts, reg.operator_name) THEN collected
        ELSE IF opts.per_op_registration
        THEN [collected EXCEPT !.per_op.items =
                  per_op_append(@, reg.operator_name, reg.registration_code)]
        ELSE [collected EXCEPT !.per_type = <<reg.registration_code>> \o @]

\* gen.py:270-285: the loop body of add_op_registrations; agg holds the three
\* destinations: per_type (a list), per_op and schema (each None or a list)
add_op_registration(agg, opts, reg) ==
    LET collected ==
            IF ~agg.schema.is_none
            THEN [agg EXCEPT !.schema.items = Append(@, reg.schema_registration_code)]
            ELSE agg
    IN  IF not_whitelisted_op(opts, reg.operator_name) THEN collected
        ELSE IF opts.per_op_registration
        THEN [collected EXCEPT !.per_op.items =
                  per_op_append(@, reg.operator_name, reg.registration_code)]
        ELSE [collected EXCEPT !.per_type = Append(@, reg.registration_code)]

RECURSIVE add_op_registrations(_, _, _)
\* gen.py:268-285
add_op_registrations(agg, opts, regs) ==
    IF regs = <<>> THEN agg
    ELSE add_op_registrations(add_op_registration(agg, opts, Head(regs)), opts, Tail(regs))

Min(S) == CHOOSE x \in S : \A y \in S : x <= y

RECURSIVE sorted_set(_)
\* sorted(set(schema_registrations))
sorted_set(S) ==
    IF S = {} THEN <<>> ELSE <<Min(S)>> \o sorted_set(S \ {Min(S)})

\* gen.py:479: the list rendered into SchemaRegister.cpp
schema_list(items) == sorted_set(Range(items))

----------------------------------------------------------------------------
(* The script: declare_outputs, then write_outputs or generate_outputs     *)
(* (gen.py:538-544)                                                        *)

NoneList == [is_none |-> TRUE, items |-> <<>>]
EmptyList == [is_none |-> FALSE, items |-> <<>>]

\* per pair: the paths its iteration of declare_outputs reserved, the paths
\* its call of generate_storage_type_and_tensor wrote, and the registrations
\* that call handed to add_op_registrations
EmptyPairLog ==
    [pair \in Range(AllPairs) |-> [declared |-> {}, written |-> {}, registrations |-> <<>>]]

InitRest ==
    /\ err = ""
    /\ output_declarations = <<>>
    /\ fm = InitManagers
    /\ touched = {}
    /\ top_env = InitTopEnv
    /\ per_op_registrations = [is_none |-> TRUE, items |-> <<>>]
    /\ schema_registrations = [is_none |-> TRUE, items |-> <<>>]
    /\ type_index = 1
    /\ calls = NoCalls
    /\ pair_log = EmptyPairLog
    /\ passed = <<>>

\* the paths of the calls io made beyond those of before
NewFiles(before, io) ==
    UNION {{io.calls[p][i].file : i \in (Len(before.calls[p]) + 1)..Len(io.calls[p])}
              : p \in Partitions}

\* the state of declare_outputs' loop after its first n iterations
declare_types_upto(io, opts, n) == declare_types(io, opts, SubSeq(iterate_types(opts), 1, n))

DeclareOutputs ==
    /\ pc = "declare_outputs"
    /\ SetIO(declare_outputs(IO, options),
             IF options.output_dependencies THEN "write_outputs" ELSE "generate_outputs")
    /\ pair_log' =
          [pair \in Range(AllPairs) |->
              IF \E n \in 1..Len(iterate_types(options)) : iterate_types(options)[n] = pair
              THEN LET n == CHOOSE k \in 1..Len(iterate_types(options)) :
                                iterate_types(options)[k] = pair
                   IN [pair_log[pair] EXCEPT !.declared =
                          NewFiles(declare_types_upto(IO, options, n - 1),
                                   declare_types_upto(IO, options, n))]
              ELSE pair_log[pair]]
    /\ UNCHANGED <<options, declarations, output_declarations, top_env,
                   per_op_registrations, schema_registrations, type_index, passed>>

\* gen.py:539-542: the dependency lists of the three managers
WriteOutputs ==
    /\ pc = "write_outputs"
    /\ SetIO(io_write_outputs(
                 io_write_outputs(
                     io_write_outputs(IO, "common", deps_path),
                     "core", deps_path \o "-core"),
                 "cuda", deps_path \o "-cuda"),
             "exit")
    /\ UNCHANGED <<options, declarations, output_declarations, top_env,
                   per_op_registrations, schema_registrations, type_index, pair_log, passed>>

RECURSIVE return_names(_)
return_names(decls) ==
    IF decls = <<>> THEN <<>>
    ELSE [i \in 1..Len(Head(decls).returns) |-> Head(decls).returns[i].name]
             \o return_names(Tail(decls))

\* gen.py:254-265: the manifest text, kept as the return names it lists
format_yaml(opts, data) == IF opts.output_dependencies THEN <<>> ELSE return_names(data)

\* the first part of generate_outputs with the manifest left unwritten
CreateGenericWithoutManifest ==
    /\ pc = "generate_outputs"
    /\ \E parsed \in DistinctSeqsUpTo(DeclSamples, MaxDecls) :
          /\ declarations' = parsed
          /\ LET r == postprocess_output_declarations(parsed) IN
                IF r.failed
                THEN /\ pc' = "raised"
                     /\ err' = "AssertionError"
                     /\ UNCHANGED <<output_declarations, fm, disk, touched, calls>>
                ELSE /\ output_declarations' = r.declarations
                     /\ SetIO(IO, "backend_select")
    /\ per_op_registrations' = IF options.per_op_registration THEN EmptyList ELSE NoneList
    /\ schema_registrations' = IF options.force_schema_registration THEN EmptyList ELSE NoneList
    /\ UNCHANGED <<options, top_env, type_index, pair_log, passed>>

\* gen.py:483-504: parse the declarations (any list of different ones), create the
\* registration tables, create_generic, normalise, write the manifest
CreateGeneric ==
    /\ pc = "generate_outputs"
    /\ \E parsed \in DistinctSeqsUpTo(DeclSamples, MaxDecls) :
          /\ declarations' = parsed
          /\ LET r == postprocess_output_declarations(parsed) IN
                IF r.failed
                THEN /\ pc' = "raised"
                     /\ err' = "AssertionError"
                     /\ UNCHANGED <<output_declarations, fm, disk, touched, calls>>
                ELSE /\ output_declarations' = r.declarations
                     /\ SetIO(io_write(IO, "common", "Declarations.yaml",
                                       format_yaml(options, r.declarations)),
                              "backend_select")
    /\ per_op_registrations' = IF options.per_op_registration THEN EmptyList ELSE NoneList
    /\ schema_registrations' = IF options.force_schema_registration THEN EmptyList ELSE NoneList
    /\ UNCHANGED <<options, top_env, type_index, pair_log, passed>>

\* gen_backend_select_register.register_backend_select_methods (gen.py:506)
register_backend_select_methods(io) ==
    io_write(io, "common", "BackendSelectRegister.cpp", <<>>)

BackendSelect ==
    /\ pc = "backend_select"
    /\ SetIO(register_backend_select_methods(IO), "add_op_registrations")
    /\ UNCHANGED <<options, declarations, output_declarations, top_env,
                   per_op_registrations, schema_registrations, type_index, pair_log, passed>>

\* gen.py:508-509: the registrations of the default type
AddGenericRegistrations ==
    /\ pc = "add_op_registrations"
    /\ LET agg == add_op_registrations(
                      [per_type |-> top_env.function_registrations,
                       per_op |-> per_op_registrations,
                       schema |-> schema_registrations],
                      options, create_generic(declarations))
       IN /\ top_env' = [top_env EXCEPT !.function_registrations = agg.per_type]
          /\ per_op_registrations' = agg.per_op
          /\ schema_registrations' = agg.schema
    /\ passed' = passed \o create_generic(declarations)
    /\ pc' = "iterate_types"
    /\ UNCHANGED <<err, options, declarations, output_declarations, fm, disk,
                   touched, type_index, calls, pair_log>>

\* gen.py:362-366: the legacy pair is written for Backend CPU and CUDA
legacy_writes(pair) ==
    IF full_backend(pair) = "CPU" \/ full_backend(pair) = "CUDA"
    THEN << <<"LegacyTHFunctions" \o full_backend(pair) \o ".h", <<>> >>,
            <<"LegacyTHFunctions" \o full_backend(pair) \o ".cpp", <<>> >> >>
    ELSE <<>>

\* every include line going to the CPU header list
append_type_header_cpu_only(env, pair) ==
    [env EXCEPT !.cpu_type_headers =
         Append(@, "#include <ATen/" \o type_name(pair) \o ".h>")]

\* gen.py:374-380: the include line goes to one of the two header lists
append_type_header(env, pair) ==
    IF backend_to_devicetype(pair[1]) = "CPU" \/ backend_to_devicetype(pair[1]) = "Vulkan"
    THEN [env EXCEPT !.cpu_type_headers =
              Append(@, "#include <ATen/" \o type_name(pair) \o ".h>")]
    ELSE [env EXCEPT !.cuda_type_headers =
              Append(@, "#include <ATen/" \o type_name(pair) \o ".h>")]

\* gen.py:288-380 for one pair, from the current state: the new file
\* managers, environment and registration tables, and the registrations
\* handed to add_op_registrations
generate_storage_type_and_tensor(pair) ==
    IF ~is_whitelisted_backend(options, full_backend(pair))
    THEN [io |-> IO, top_env |-> top_env, per_op |-> per_op_registrations,
          schema |-> schema_registrations, registrations |-> <<>>]
    ELSE LET regs == create_derived(pair, declarations)
             agg == add_op_registrations(
                        [per_type |-> <<>>, per_op |-> per_op_registrations,
                         schema |-> schema_registrations],
                        options, regs)
             written == io_writes(IO, write_partition(pair),
                            legacy_writes(pair)
                                \o << <<type_name(pair) \o ".cpp", agg.per_type>>,
                                      <<type_name(pair) \o ".h", <<>> >> >>)
             device_ok == backend_to_devicetype(pair[1]) \in {"CPU", "Vulkan", "CUDA"}
         IN [io |-> IF device_ok THEN written ELSE [written EXCEPT !.err = "AssertionError"],
             top_env |-> LET ids == [top_env EXCEPT !.type_ids =
                                        Append(@, full_backend(pair) \o ",")]
                         IN IF device_ok THEN append_type_header(ids, pair) ELSE ids,
             per_op |-> agg.per_op,
             schema |-> agg.schema,
             registrations |-> regs]

\* gen.py:511-513: one iteration of the loop over iterate_types()
GenerateType ==
    /\ pc = "iterate_types"
    /\ type_index <= Len(iterate_types(options))
    /\ LET pair == iterate_types(options)[type_index]
           r == generate_storage_type_and_tensor(pair)
       IN /\ SetIO(r.io, "iterate_types")
          /\ top_env' = r.top_env
          /\ per_op_registrations' = r.per_op
          /\ schema_registrations' = r.schema
          /\ pair_log' = [pair_log EXCEPT ![pair].written = NewFiles(IO, r.io),
                                          ![pair].registrations = r.registrations]
          /\ passed' = passed \o r.registrations
    /\ type_index' = type_index + 1
    /\ UNCHANGED <<options, declarations, output_declarations>>

\* gen.py:515-530: the files rendered from top_env
WriteTopEnvFiles ==
    /\ pc = "iterate_types"
    /\ type_index > Len(iterate_types(options))
    /\ LET core == io_writes(IO, "core",
                       << <<"TensorBody.h", <<>> >>, <<"TensorMethods.cpp", <<>> >>,
                          <<"ATenOpList.cpp", <<>> >> >>)
           defaults == io_writes(core, "common",
                       << <<"TypeDefault.h", <<>> >>,
                          <<"TypeDefault.cpp", top_env.function_registrations>>,
                          <<"Functions.h", <<>> >> >>)
           functions == io_write(defaults, "core", "TensorFunctions.cpp", <<>>)
       IN SetIO(io_write(functions, "common", "NativeFunctions.h", <<>>),
                "generate_per_op_registration")
    /\ UNCHANGED <<options, declarations, output_declarations, top_env,
                   per_op_registrations, schema_registrations, type_index, pair_log, passed>>

\* the placeholder step left out
add_missing_ops_none(items, ops) == items

RECURSIVE add_missing_ops(_, _)
\* gen.py:463-465: an empty list for every whitelisted operator without one
add_missing_ops(items, ops) ==
    IF ops = <<>> THEN items
    ELSE add_missing_ops(
             IF \E i \in 1..Len(items) : items[i].opname = Head(ops)
             THEN items
             ELSE Append(items, [opname |-> Head(ops), registrations |-> <<>>]),
             Tail(ops))

\* gen.py:467-472: the (filename, registrations) written per operator
per_op_writes(items) ==
    [i \in 1..Len(items) |->
        <<gen_per_op_registration_filename(items[i].opname), items[i].registrations>>]

\* gen.py:450-472
GeneratePerOpRegistration ==
    /\ pc = "generate_per_op_registration"
    /\ IF ~options.per_op_registration
       THEN /\ pc' = "generate_schema_registration"
            /\ UNCHANGED <<err, fm, disk, touched, calls, per_op_registrations>>
       ELSE LET items == add_missing_ops(per_op_registrations.items,
                             SetToSeq(options.op_registration_whitelist.items))
            IN /\ per_op_registrations' = [per_op_registrations EXCEPT !.items = items]
               /\ SetIO(io_writes(IO, "common", per_op_writes(items)),
                        "generate_schema_registration")
    /\ UNCHANGED <<options, declarations, output_declarations, top_env,
                   schema_registrations, type_index, pair_log, passed>>

\* gen.py:475-480
GenerateSchemaRegistration ==
    /\ pc = "generate_schema_registration"
    /\ IF ~options.force_schema_registration
       THEN /\ pc' = "check_common"
            /\ UNCHANGED <<err, fm, disk, touched, calls>>
       ELSE SetIO(io_write(IO, "common", "SchemaRegister.cpp",
                           schema_list(schema_registrations.items)),
                  "check_common")
    /\ UNCHANGED <<options, declarations, output_declarations, top_env,
                   per_op_registrations, schema_registrations, type_index, pair_log, passed>>

\* gen.py:535
CheckCommon ==
    /\ pc = "check_common"
    /\ SetIO(io_check(IO, "common"), "check_cuda")
    /\ UNCHANGED <<options, declarations, output_declarations, top_env,
                   per_op_registrations, schema_registrations, type_index, pair_log, passed>>

\* gen.py:536
CheckCuda ==
    /\ pc = "check_cuda"
    /\ SetIO(io_check(IO, "cuda"), "done")
    /\ UNCHANGED <<options, declarations, output_declarations, top_env,
                   per_op_registrations, schema_registrations, type_index, pair_log, passed>>

\* a run of the script on any command line, in a fresh output directory
Init ==
    /\ pc = "declare_outputs"
    /\ options \in Options
    /\ declarations = <<>>
    /\ disk = <<>>
    /\ InitRest

Next ==
    \/ DeclareOutputs
    \/ WriteOutputs
    \/ CreateGeneric
    \/ BackendSelect
    \/ AddGenericRegistrations
    \/ GenerateType
    \/ WriteTopEnvFiles
    \/ GeneratePerOpRegistration
    \/ GenerateSchemaRegistration
    \/ CheckCommon
    \/ CheckCuda

Spec == Init /\ [][Next]_vars

----------------------------------------------------------------------------
(* A driver of one FileManager: any sequence of will_write, write,         *)
(* write_outputs and check_all_files_written calls on file_manager         *)

DriverFiles == {"a.h", "b.h"}
DriverTexts == {<<1>>, <<2>>}
DriverDisks == {<<>>} \cup {[p \in {"ATen/a.h"} |-> t] : t \in DriverTexts}

DefaultOptions ==
    [output_dependencies |-> FALSE, vulkan |-> FALSE,
     per_op_registration |-> FALSE, force_schema_registration |-> FALSE,
     op_registration_whitelist |-> None, backend_whitelist |-> None]

InitDriver ==
    /\ pc = "driver"
    /\ options = DefaultOptions
    /\ declarations = <<>>
    /\ disk \in DriverDisks
    /\ InitRest

\* the driver catches a call's exception: the next call starts without one
DriverIO == [IO EXCEPT !.err = ""]

DriverStep(io) ==
    /\ fm' = io.fm
    /\ disk' = io.disk
    /\ touched' = io.touched
    /\ calls' = io.calls
    /\ err' = io.err
    /\ UNCHANGED <<pc, options, declarations, output_declarations, top_env,
                   per_op_registrations, schema_registrations, type_index, pair_log, passed>>

DriverMayCall == pc = "driver" /\ Len(calls["common"]) < MaxCalls

DriverWillWrite ==
    /\ DriverMayCall
    /\ \E f \in DriverFiles : DriverStep(io_will_write(DriverIO, "common", f))

DriverWrite ==
    /\ DriverMayCall
    /\ \E f \in DriverFiles, s \in DriverTexts :
          DriverStep(io_write(DriverIO, "common", f, s))

DriverWriteOutputs ==
    /\ DriverMayCall
    /\ DriverStep(io_write_outputs(DriverIO, "common", deps_path))

DriverCheck ==
    /\ DriverMayCall
    /\ DriverStep(io_check(DriverIO, "common"))

RECURSIVE driver_replay(_, _)
\* the calls cs made again, in order, by a new process
driver_replay(io, cs) ==
    IF cs = <<>> THEN io
    ELSE LET c == Head(cs)
             clean == [io EXCEPT !.err = ""]
             name == CHOOSE f \in DriverFiles : FullName(io.fm["common"], f) = c.file
         IN driver_replay(
                CASE c.op = "will_write" -> io_will_write(clean, "common", name)
                  [] c.op = "write" -> io_write(clean, "common", name, c.text)
                  [] c.op = "write_outputs" -> io_write_outputs(clean, "common", c.file)
                  [] OTHER -> io_check(clean, "common"),
                Tail(cs))

\* the driver's calls are run a second time, by a new process with a new
\* FileManager, on the files the first run left; touched then holds the paths
\* the second run opened for writing (fm and calls stay those of the first run)
DriverRerun ==
    /\ pc = "driver"
    /\ LET second == driver_replay(
                          [fm |-> InitManagers, disk |-> disk, touched |-> {},
                           calls |-> NoCalls, err |-> ""],
                          calls["common"])
       IN /\ disk' = second.disk
          /\ touched' = second.touched
    /\ pc' = "reran"
    /\ UNCHANGED <<err, options, declarations, output_declarations, fm, top_env,
                   per_op_registrations, schema_registrations, type_index,
                   calls, pair_log, passed>>

NextDriver ==
    \/ DriverWillWrite
    \/ DriverWrite
    \/ DriverWriteOutputs
    \/ DriverCheck
    \/ DriverRerun

SpecFM == InitDriver /\ [][NextDriver]_vars

----------------------------------------------------------------------------
(* A driver of the normaliser: postprocess_output_declarations on one      *)
(* declaration of any shape                                                *)

ReturnChoices == {Unnamed, Named("grad"), Named("values")}

DriverDecls ==
    [operator_name : {ns_add}, schema : {1}, dispatch : {TRUE},
     inplace : BOOLEAN, returns : SeqsUpTo(ReturnChoices, MaxReturns),
     buffers : {"absent", "None", "list"}]

InitPost ==
    /\ pc = "normalise"
    /\ options = DefaultOptions
    /\ declarations \in {<<d>> : d \in DriverDecls}
    /\ disk = <<>>
    /\ InitRest

PostRun ==
    /\ pc = "normalise"
    /\ LET r == postprocess_output_declarations(declarations) IN
          /\ output_declarations' = r.declarations
          /\ err' = IF r.failed THEN "AssertionError" ELSE ""
          /\ pc' = IF r.failed THEN "raised" ELSE "normalised"
    /\ UNCHANGED <<options, declarations, fm, disk, touched, top_env,
                   per_op_registrations, schema_registrations, type_index,
                   calls, pair_log, passed>>

SpecPost == InitPost /\ [][PostRun]_vars

----------------------------------------------------------------------------
(* What the call history of a file manager says *)

\* the names will_write accepted on manager p
Declared(p) ==
    {c.file : c \in {d \in Range(calls[p]) : d.op = "will_write" /\ ~d.raised}}

\* the calls of the given method made on manager p
CallsOf(p, op) == {i \in 1..Len(calls[p]) : calls[p][i].op = op}

\* the names written through manager p
Written(p) == {c.file : c \in {d \in Range(calls[p]) : d.op = "write"}}

TimesWritten(p, f) ==
    Cardinality({i \in 1..Len(calls[p]) : calls[p][i].op = "write" /\ calls[p][i].file = f})

\* every declared name was written exactly once and no other name was written
WrittenExactlyOnce(p) ==
    /\ \A f \in Declared(p) : TimesWritten(p, f) = 1
    /\ Written(p) \subseteq Declared(p)

LastCall(p) == calls[p][Len(calls[p])]

LastIs(p, op) == Len(calls[p]) > 0 /\ LastCall(p).op = op

\* no name was reserved again after it had been written
NoReservationAfterItsWrite(p) ==
    \A i, j \in 1..Len(calls[p]) :
        (i < j /\ calls[p][i].op = "write" /\ calls[p][j].op = "will_write")
            => calls[p][i].file # calls[p][j].file

----------------------------------------------------------------------------
(* Claims about one FileManager, checked under SpecFM *)

\* C2 (as stated): after any sequence of will_write and write calls,
\* check_all_files_written succeeds if and only if every declared filename
\* was written exactly once and no other filename was written.
C2_Original ==
    LastIs("common", "check_all_files_written") =>
        (~LastCall("common").raised <=> WrittenExactlyOnce("common"))

\* C2 (amended): when no name is reserved again after it was written,
\* check_all_files_written succeeds if and only if every declared filename
\* was written exactly once and no other filename was written.
C2_Amended ==
    (LastIs("common", "check_all_files_written") /\ NoReservationAfterItsWrite("common")) =>
        (~LastCall("common").raised <=> WrittenExactlyOnce("common"))

\* a check that succeeded after names were declared and written
C2_Witness ==
    /\ LastIs("common", "check_all_files_written")
    /\ NoReservationAfterItsWrite("common")
    /\ ~LastCall("common").raised
    /\ Declared("common") # {}

\* C3 (as stated): once any write has occurred on a manager, every later
\* will_write on it is rejected.
C3_Original ==
    \A i, j \in 1..Len(calls["common"]) :
        (i < j /\ calls["common"][i].op = "write" /\ calls["common"][j].op = "will_write")
            => calls["common"][j].raised

\* C3 (amended): a will_write is rejected exactly when write_outputs was
\* called on the manager before it; a write does not close the manager.
C3_Amended ==
    \A j \in 1..Len(calls["common"]) :
        calls["common"][j].op = "will_write" =>
            (calls["common"][j].raised <=>
                \E i \in 1..(j - 1) : calls["common"][i].op = "write_outputs")

\* a reservation rejected after write_outputs, and one accepted after a write
C3_Witness ==
    /\ \E j \in 1..Len(calls["common"]) :
          calls["common"][j].op = "will_write" /\ calls["common"][j].raised
    /\ \E i, j \in 1..Len(calls["common"]) :
          /\ i < j
          /\ calls["common"][i].op = "write"
          /\ calls["common"][j].op = "will_write"
          /\ ~calls["common"][j].raised

\* the step is a call of write on file_manager for a name not pending
WritesUndeclared ==
    /\ Len(calls'["common"]) = Len(calls["common"]) + 1
    /\ calls'["common"][Len(calls'["common"])].op = "write"
    /\ calls'["common"][Len(calls'["common"])].file \notin fm["common"].filenames

\* C4: a write to a name that is not in the declared set does not fail: the
\* content is written, the pending set is unchanged, the name is appended to
\* the undeclared-write list, and from then on check_all_files_written raises.
C4_UndeclaredWriteDeferred ==
    [][ /\ WritesUndeclared =>
            LET c == calls'["common"][Len(calls'["common"])] IN
            /\ ~c.raised
            /\ err' = ""
            /\ c.file \in DOMAIN disk'
            /\ disk'[c.file] = c.text
            /\ fm'["common"].filenames = fm["common"].filenames
            /\ fm'["common"].undeclared_files = Append(fm["common"].undeclared_files, c.file)
            /\ check_all_files_written(fm'["common"]).kind = "undeclared_files"
        /\ check_all_files_written(fm["common"]).kind = "undeclared_files"
            => check_all_files_written(fm'["common"]).kind = "undeclared_files"
      ]_vars

\* an undeclared write was made without failing and a later check raised
C4_Witness ==
    /\ LastIs("common", "check_all_files_written")
    /\ LastCall("common").raised
    /\ LastCall("common").report.kind = "undeclared_files"
    /\ \E i \in 1..Len(calls["common"]) :
          /\ calls["common"][i].op = "write"
          /\ ~calls["common"][i].raised
          /\ calls["common"][i].file \in Range(fm["common"].undeclared_files)

\* the manager holds both an undeclared write and a declared name never written
BothViolations(p) ==
    Len(fm[p].undeclared_files) > 0 /\ fm[p].filenames # {}

\* C5 (as stated): with both an undeclared write and a declared file never
\* written, the failure check_all_files_written raises reports both kinds.
C5_Original ==
    (LastIs("common", "check_all_files_written") /\ BothViolations("common")) =>
        /\ LastCall("common").raised
        /\ Range(LastCall("common").report.undeclared) = Range(fm["common"].undeclared_files)
        /\ LastCall("common").report.never_written = fm["common"].filenames

\* C5 (amended): with both kinds present the failure reports the undeclared
\* writes, all of them, and none of the files never written; those are
\* reported only by a check that finds no undeclared write.
C5_Amended ==
    LastIs("common", "check_all_files_written") =>
        /\ Len(fm["common"].undeclared_files) > 0 =>
              /\ LastCall("common").raised
              /\ LastCall("common").report.undeclared = fm["common"].undeclared_files
              /\ LastCall("common").report.never_written = {}
        /\ (Len(fm["common"].undeclared_files) = 0 /\ fm["common"].filenames # {}) =>
              /\ LastCall("common").raised
              /\ LastCall("common").report.undeclared = <<>>
              /\ LastCall("common").report.never_written = fm["common"].filenames

\* a check made with both kinds of violation present
C5_Witness ==
    LastIs("common", "check_all_files_written") /\ BothViolations("common")

\* the calls on manager p that write a file
DiskWrites(p) == CallsOf(p, "write") \cup CallsOf(p, "write_outputs")

\* every path is given the same content each time it is written
SameContentPerPath(p) ==
    \A i, j \in DiskWrites(p) :
        calls[p][i].file = calls[p][j].file => calls[p][i].text = calls[p][j].text

\* the step is a call on file_manager that writes a file
IsDiskWrite ==
    /\ Len(calls'["common"]) = Len(calls["common"]) + 1
    /\ calls'["common"][Len(calls'["common"])].op \in {"write", "write_outputs"}

\* a write opens the file exactly when its content is new, a missing file
\* counting as new, and changes no other file
TouchesIffDiffers ==
    IsDiskWrite =>
        LET c == calls'["common"][Len(calls'["common"])] IN
        /\ c.file \notin touched =>
              (c.file \in touched' <=> (c.file \notin DOMAIN disk \/ disk[c.file] # c.text))
        /\ touched \subseteq touched'
        /\ touched' \subseteq touched \cup {c.file}
        /\ DOMAIN disk' = DOMAIN disk \cup {c.file}
        /\ disk'[c.file] = c.text
        /\ \A q \in DOMAIN disk \ {c.file} : disk'[q] = disk[q]

\* the step is the second run of the calls made so far
IsRerun == pc = "driver" /\ pc' = "reran"

\* C15 (as stated): a write touches the file on disk if and only if the new
\* content differs from the content stored at that path, an absent file
\* counting as differing; hence the same sequence of writes run a second time
\* performs no disk write and leaves every file's content unchanged.
C15_Original ==
    [][ /\ TouchesIffDiffers
        /\ IsRerun => (touched' = {} /\ disk' = disk) ]_vars

\* C15 (amended): a write touches the file on disk if and only if the new
\* content differs from the content stored at that path, an absent file
\* counting as differing; hence a sequence of writes run a second time
\* leaves every file's content unchanged, and performs no disk write exactly
\* when it gives every path the same content each time it writes it.
C15_Amended ==
    [][ /\ TouchesIffDiffers
        /\ IsRerun =>
              /\ disk' = disk
              /\ (touched' = {}) <=> SameContentPerPath("common") ]_vars

\* a second run of several writes, one of them to a file that existed with
\* another content, opened no file
C15_Witness ==
    /\ pc = "reran"
    /\ touched = {}
    /\ Cardinality(CallsOf("common", "write")) >= 2
    /\ CallsOf("common", "write_outputs") # {}
    /\ SameContentPerPath("common")

----------------------------------------------------------------------------
(* Claims about the normaliser, checked under SpecPost *)

TheDecl == declarations[1]

UnnamedAt(decl) == {i \in 1..Len(decl.returns) : ~decl.returns[i].named}

PostFinished == pc \in {"normalised", "raised"}

\* C10 (as stated): for every declaration with inplace=false and exactly one
\* unnamed return, whatever its other named returns, that return is named
\* 'out'.
C10_Original ==
    (PostFinished /\ ~TheDecl.inplace /\ Cardinality(UnnamedAt(TheDecl)) = 1) =>
        /\ pc = "normalised"
        /\ \A i \in UnnamedAt(TheDecl) : output_declarations[1].returns[i].name = "out"

\* C10 (amended): for a declaration with inplace=false and exactly one
\* unnamed return, that return is named 'out' when it is the declaration's
\* only return; when named returns follow it, it is named 'out0'; when a
\* named return precedes it, the assertion fails.
C10_Amended ==
    (PostFinished /\ ~TheDecl.inplace /\ Cardinality(UnnamedAt(TheDecl)) = 1) =>
        LET i == CHOOSE k \in UnnamedAt(TheDecl) : TRUE IN
        IF Len(TheDecl.returns) = 1
        THEN pc = "normalised" /\ output_declarations[1].returns[1] = Named("out")
        ELSE IF i = 1
        THEN pc = "normalised" /\ output_declarations[1].returns[1] = Named("out0")
        ELSE pc = "raised" /\ err = "AssertionError"

\* a lone unnamed return of a declaration that is not inplace was named 'out'
C10_Witness ==
    /\ pc = "normalised"
    /\ ~TheDecl.inplace
    /\ TheDecl.returns = <<Unnamed>>
    /\ output_declarations[1].returns = <<Named("out")>>

\* the returns after normalisation
TheReturns == output_declarations[1].returns

\* the number of unnamed returns that precede position i
UnnamedBefore(decl, i) == Cardinality({j \in UnnamedAt(decl) : j < i})

\* C11: for a declaration on which postprocess_output_declarations
\* completes, every return has a name afterwards; a return that arrived with
\* a name keeps it; with inplace each return that arrived unnamed is named
\* 'self'; without inplace, N > 1 returns that arrived unnamed are named
\* out0..out{N-1} in order.
C11_ReturnNaming ==
    pc = "normalised" =>
        /\ Len(TheReturns) = Len(TheDecl.returns)
        /\ \A i \in 1..Len(TheReturns) :
              /\ TheReturns[i].named
              /\ TheReturns[i].name # ""
              /\ TheDecl.returns[i].named => TheReturns[i] = TheDecl.returns[i]
        /\ TheDecl.inplace =>
              \A i \in UnnamedAt(TheDecl) : TheReturns[i].name = "self"
        /\ (~TheDecl.inplace /\ Cardinality(UnnamedAt(TheDecl)) > 1) =>
              \A i \in UnnamedAt(TheDecl) :
                  TheReturns[i].name = "out" \o str(UnnamedBefore(TheDecl, i))

\* two unnamed returns before a named one were named out0 and out1
C11_Witness ==
    /\ pc = "normalised"
    /\ ~TheDecl.inplace
    /\ TheDecl.returns = <<Unnamed, Unnamed, Named("grad")>>
    /\ TheReturns = <<Named("out0"), Named("out1"), Named("grad")>>

\* some return that arrived unnamed comes after one that arrived named
UnnamedAfterNamed(decl) ==
    \E i \in UnnamedAt(decl) : \E j \in 1..(i - 1) : decl.returns[j].named

\* C12 (as stated): a declaration with more than one return arriving unnamed
\* makes normalisation fail with an assertion.
C12_Original ==
    (PostFinished /\ Cardinality(UnnamedAt(TheDecl)) > 1) =>
        pc = "raised" /\ err = "AssertionError"

\* C12 (amended): a declaration with more than one return arriving unnamed
\* makes normalisation fail with an assertion exactly when one of them comes
\* after a return that arrived named; otherwise it is normalised, every
\* return getting a name.
C12_Amended ==
    (PostFinished /\ Cardinality(UnnamedAt(TheDecl)) > 1) =>
        IF UnnamedAfterNamed(TheDecl)
        THEN pc = "raised" /\ err = "AssertionError"
        ELSE /\ pc = "normalised"
             /\ err = ""
             /\ \A i \in 1..Len(TheReturns) : TheReturns[i].named

\* a declaration with two unnamed returns was normalised without failure
C12_Witness ==
    /\ pc = "normalised"
    /\ ~TheDecl.inplace
    /\ TheDecl.returns = <<Unnamed, Unnamed>>
    /\ TheReturns = <<Named("out0"), Named("out1")>>

\* C21: postprocess_output_declarations fails its assertion on a declaration
\* if and only if some return lacking a name comes after a return that
\* arrived with a name; a declaration whose unnamed returns all precede its
\* named returns, however many unnamed returns it has, is normalised
\* without failure.
C21_AssertionIffUnnamedAfterNamed ==
    PostFinished =>
        /\ (pc = "raised") <=> UnnamedAfterNamed(TheDecl)
        /\ (pc = "raised") => err = "AssertionError"
        /\ (pc = "normalised") =>
              /\ err = ""
              /\ Len(TheReturns) = Len(TheDecl.returns)
              /\ \A i \in UnnamedAt(TheDecl) : \A j \in 1..Len(TheDecl.returns) :
                    TheDecl.returns[j].named => i < j

\* the assertion failed on a declaration with a single unnamed return, which
\* follows a named one
C21_Witness ==
    /\ pc = "raised"
    /\ err = "AssertionError"
    /\ TheDecl.returns = <<Named("values"), Unnamed>>

----------------------------------------------------------------------------
(* Claims about a run of the script, checked under Spec *)

\* C1: a generation run that completes normally has, in each of the three
\* partitions, written exactly the names declare_outputs declared: with a
\* declared name never written or an undeclared name written, in any
\* partition, the run ends by raising.
C1_MismatchRaises ==
    pc = "done" => \A p \in Partitions : Written(p) = Declared(p)

\* a run that reached its checks with a mismatch and ended by raising
C1_Witness ==
    /\ pc = "raised"
    /\ err \in {"never_written", "undeclared_files"}
    /\ \E p \in Partitions :
          Written(p) # Declared(p) /\ LastIs(p, "check_all_files_written")

\* the schema codes of the registrations handed to add_op_registrations
PassedSchemas == [i \in 1..Len(passed) |-> passed[i].schema_registration_code]

IsSortedNoDuplicates(s) == \A i, j \in 1..Len(s) : i < j => s[i] < s[j]

\* C6: with force_schema_registration every registration handed to
\* add_op_registrations, by the generic generator or by a generated pair,
\* has its schema code in the schema table, whitelisted or not; and the list
\* written to SchemaRegister.cpp is the sorted, duplicate-free set of them.
C6_SchemaComplete ==
    /\ (options.force_schema_registration /\ pc # "declare_outputs" /\ pc # "generate_outputs"
            /\ ~schema_registrations.is_none)
          => schema_registrations.items = PassedSchemas
    /\ (options.force_schema_registration /\ Len(passed) > 0)
          => ~schema_registrations.is_none
    /\ "ATen/SchemaRegister.cpp" \in DOMAIN disk =>
          /\ IsSortedNoDuplicates(disk["ATen/SchemaRegister.cpp"])
          /\ Range(disk["ATen/SchemaRegister.cpp"]) = Range(PassedSchemas)

\* the schema file was written from a table holding duplicates and the code
\* of an operator that the whitelist excludes
C6_Witness ==
    /\ pc = "done"
    /\ "ATen/SchemaRegister.cpp" \in DOMAIN disk
    /\ Len(disk["ATen/SchemaRegister.cpp"]) > 1
    /\ Len(passed) > Len(disk["ATen/SchemaRegister.cpp"])
    /\ \E i \in 1..Len(passed) :
          /\ not_whitelisted_op(options, passed[i].operator_name)
          /\ passed[i].schema_registration_code \in Range(disk["ATen/SchemaRegister.cpp"])

RECURSIVE Concat(_)
Concat(ss) == IF ss = <<>> THEN <<>> ELSE Head(ss) \o Concat(Tail(ss))

\* the registrations rendered into the type file of a pair
TypeFileList(pair) ==
    LET path == "ATen/" \o type_name(pair) \o ".cpp" IN
    IF path \in DOMAIN disk THEN disk[path] ELSE <<>>

\* every flat list: the default type's, then each generated type's
FlatLists ==
    top_env.function_registrations
        \o Concat([i \in 1..Len(AllPairs) |-> TypeFileList(AllPairs[i])])

\* the lists of the per-operator mapping
PerOpLists ==
    Concat([i \in 1..Len(per_op_registrations.items) |->
               per_op_registrations.items[i].registrations])

PerOpList(opname) ==
    Concat([i \in 1..Len(per_op_registrations.items) |->
               IF per_op_registrations.items[i].opname = opname
               THEN per_op_registrations.items[i].registrations
               ELSE <<>>])

TimesPassed(reg) == Cardinality({i \in 1..Len(passed) : passed[i] = reg})

\* C7: a registration whose operator is not in a configured whitelist is
\* appended to no kernel destination; any other is appended to exactly one:
\* the per-operator mapping under its operator name in per-operator mode,
\* else the flat list.  A filtered registration still has its schema entry
\* when schema forcing is on.
C7_WhitelistFiltering ==
    LET flat == FlatLists
        per_op == PerOpLists
    IN
    \A n \in 1..Len(passed) :
        LET reg == passed[n]
            code == reg.registration_code
        IN /\ IF ~options.op_registration_whitelist.is_none
                    /\ reg.operator_name \notin options.op_registration_whitelist.items
              THEN Count(flat, code) = 0 /\ Count(per_op, code) = 0
              ELSE IF options.per_op_registration
              THEN /\ Count(flat, code) = 0
                   /\ Count(PerOpList(reg.operator_name), code) = TimesPassed(reg)
                   /\ Count(per_op, code) = TimesPassed(reg)
              ELSE /\ Count(flat, code) = TimesPassed(reg)
                   /\ Count(per_op, code) = 0
           /\ options.force_schema_registration =>
                 reg.schema_registration_code \in Range(schema_registrations.items)

\* with whitelist {ns::add}: ns::sub has a schema entry and no kernel
\* registration, ns::add has kernel registrations
C7_Witness ==
    /\ pc = "done"
    /\ options.op_registration_whitelist = Some({ns_add})
    /\ options.force_schema_registration
    /\ \E i, j \in 1..Len(passed) :
          /\ passed[i].operator_name = ns_sub
          /\ Count(FlatLists, passed[i].registration_code) = 0
          /\ passed[i].schema_registration_code \in Range(schema_registrations.items)
          /\ passed[j].operator_name = ns_add
          /\ Count(FlatLists, passed[j].registration_code) > 0

\* generate_per_op_registration has run
PerOpGenerated ==
    \/ pc \in {"generate_schema_registration", "check_common", "check_cuda", "done"}
    \/ pc = "raised" /\ err \in {"never_written", "undeclared_files"}

\* the operator names of the model
OpNames == {ns_add, ns_sub, ns_missing}

PerOpPath(opname) == "ATen/" \o gen_per_op_registration_filename(opname)

\* C8: in per-operator-file mode, once the per-operator files are generated,
\* exactly one registration file was written for every whitelisted operator
\* and none for any other operator; a whitelisted operator without any
\* registration has a file with an empty list; the per-operator files written
\* are those declared.
C8_PerOpFiles ==
    (options.per_op_registration /\ PerOpGenerated) =>
        LET whitelist == options.op_registration_whitelist.items IN
        /\ \A op \in whitelist : TimesWritten("common", PerOpPath(op)) = 1
        /\ \A op \in OpNames \ whitelist : TimesWritten("common", PerOpPath(op)) = 0
        /\ \A op \in OpNames : (PerOpPath(op) \in Declared("common")) <=> (op \in whitelist)
        /\ \A op \in whitelist :
              /\ PerOpPath(op) \in DOMAIN disk
              /\ (\A i \in 1..Len(passed) : passed[i].operator_name # op)
                    => disk[PerOpPath(op)] = <<>>

\* ns::missing got an empty placeholder file next to ns::add's file
C8_Witness ==
    /\ pc = "done"
    /\ options.per_op_registration
    /\ options.op_registration_whitelist = Some({ns_add, ns_missing})
    /\ PerOpPath(ns_missing) \in DOMAIN disk
    /\ disk[PerOpPath(ns_missing)] = <<>>
    /\ PerOpPath(ns_add) \in DOMAIN disk
    /\ Len(disk[PerOpPath(ns_add)]) > 0

\* the pair is one the generator skips: Mkldnn off CPU, Vulkan without the
\* flag, or a full backend name that fails the backend whitelist
SkippedPair(pair) ==
    \/ pair[2] = "Mkldnn" /\ pair[1] # "CPU"
    \/ pair[1] = "Vulkan" /\ ~options.vulkan
    \/ /\ ~options.backend_whitelist.is_none
       /\ (IF pair[2] = "Dense" THEN pair[1] ELSE pair[2] \o pair[1])
              \notin options.backend_whitelist.items

TypePaths(pair) ==
    LET name == (IF pair[2] = "Dense" THEN "" ELSE pair[2]) \o pair[1] \o "Type" IN
    {"ATen/" \o name \o ".h", "ATen/" \o name \o ".cpp"}

\* C9: for a skipped pair its iteration declares no file and writes none, its
\* type files are neither declared nor written, it hands no registration to
\* the flat, per-operator or schema tables, and nothing of it is appended to
\* type_ids, cpu_type_headers or cuda_type_headers.
C9_SkippedPairs ==
    LET named == UNION {Declared(p) \cup Written(p) : p \in Partitions}
        codes == Range(FlatLists) \cup Range(PerOpLists)
        headers == Range(top_env.cpu_type_headers) \cup Range(top_env.cuda_type_headers)
    IN
    \A n \in 1..Len(AllPairs) :
        LET pair == AllPairs[n]
            tag == (IF pair[2] = "Dense" THEN "" ELSE pair[2]) \o pair[1]
        IN SkippedPair(pair) =>
            /\ pair_log[pair].declared = {}
            /\ pair_log[pair].written = {}
            /\ pair_log[pair].registrations = <<>>
            /\ TypePaths(pair) \cap named = {}
            /\ TypePaths(pair) \cap DOMAIN disk = {}
            /\ \A c \in codes : c \div 10 # n
            /\ (tag \o ",") \notin Range(top_env.type_ids)
            /\ ("#include <ATen/" \o tag \o "Type.h>") \notin headers

\* a completed run in which the whitelist admitted only CPU: CPU/Dense was
\* generated with registrations, every other pair was skipped
C9_Witness ==
    /\ pc = "done"
    /\ options.backend_whitelist = Some({"CPU"})
    /\ ~options.vulkan
    /\ pair_log[<<"CPU", "Dense">>].registrations # <<>>
    /\ top_env.type_ids = <<"CPU,">>
    /\ top_env.cpu_type_headers = <<"#include <ATen/CPUType.h>">>

\* C13: when per-operator-file mode is requested without an operator
\* whitelist, the run aborts with a fatal error during output declaration:
\* no write is performed on any file manager, no dependency list is written
\* and generate_outputs is never entered, in normal and in dependency-list
\* mode alike.
C13_ConfigurationError ==
    (options.per_op_registration /\ options.op_registration_whitelist.is_none
        /\ pc # "declare_outputs") =>
        /\ pc = "raised"
        /\ err = "per_op_without_whitelist"
        /\ \A p \in Partitions : CallsOf(p, "write") = {} /\ CallsOf(p, "write_outputs") = {}
        /\ disk = <<>>
        /\ touched = {}
        /\ declarations = <<>>
        /\ output_declarations = <<>>
        /\ passed = <<>>

\* a dependency-list run aborted in declare_outputs after reserving names
C13_Witness ==
    /\ pc = "raised"
    /\ err = "per_op_without_whitelist"
    /\ options.output_dependencies
    /\ options.per_op_registration
    /\ "ATen/CPUType.h" \in Declared("common")

\* the path the dependency list of partition p is written to (gen.py:540-542)
DepsPath(p) == IF p = "common" THEN deps_path ELSE deps_path \o "-" \o p

\* f comes before g in Python's order of strings
LexBefore(f, g) ==
    \E i, j \in 1..Len(LexOrder) : i < j /\ LexOrder[i] = f /\ LexOrder[j] = g

\* C14: in dependency-list mode no generation happens: write is never called
\* on any file manager and generate_outputs never runs; each of the three
\* partitions writes to its own path (path, path-core, path-cuda) a list
\* holding exactly the names declared in that partition, sorted and each
\* followed by ';'; afterwards will_write on those managers is rejected.
C14_DependencyListMode ==
    options.output_dependencies =>
        /\ pc \in {"declare_outputs", "write_outputs", "exit", "raised"}
        /\ declarations = <<>>
        /\ output_declarations = <<>>
        /\ passed = <<>>
        /\ \A p \in Partitions : CallsOf(p, "write") = {}
        /\ pc = "exit" =>
              /\ DOMAIN disk = {DepsPath(p) : p \in Partitions}
              /\ \A p \in Partitions :
                    LET list == disk[DepsPath(p)] IN
                    /\ Range(list) = {f \o ";" : f \in Declared(p)}
                    /\ Len(list) = Cardinality(Declared(p))
                    /\ \A i, j \in 1..Len(list) : \A f, g \in Declared(p) :
                          (i < j /\ list[i] = f \o ";" /\ list[j] = g \o ";")
                              => LexBefore(f, g)
                    /\ io_will_write(IO, p, "a.h").err = "will_write"
                    /\ io_will_write(IO, p, "a.h").fm = fm

\* the three lists were written, the cuda one with several names
C14_Witness ==
    /\ pc = "exit"
    /\ options.output_dependencies
    /\ DepsPath("cuda") \in DOMAIN disk
    /\ Len(disk[DepsPath("cuda")]) > 2
    /\ Len(disk[DepsPath("core")]) = 4
    /\ Len(disk[DepsPath("common")]) > 6

\* the codes, in order, of the registrations of regs that pass the whitelist
WhitelistedCodes(regs) ==
    LET kept == SelectSeq(regs, LAMBDA r :
                    options.op_registration_whitelist.is_none
                        \/ r.operator_name \in options.op_registration_whitelist.items)
    IN [i \in 1..Len(kept) |-> kept[i].registration_code]

\* the registrations handed over by the generic generator: those bound to
\* the default type
GenericPassed == SelectSeq(passed, LAMBDA r : r.registration_code \div 10 = 0)

\* C16 (as stated): with per-operator-file mode off, the registrations that
\* pass the whitelist, from all backends, are appended to one flat list
\* shared across all backends, in backend iteration order and, within a
\* backend, in declaration processing order.
C16_Original ==
    ~options.per_op_registration =>
        top_env.function_registrations = WhitelistedCodes(passed)

\* C16 (amended): with per-operator-file mode off, the registrations that
\* pass the whitelist are appended to the flat list of the type they belong
\* to: those of the generic generator to the shared list of top_env, those
\* of a backend to a list of that backend alone, rendered into its type
\* file; each list is in declaration processing order.
C16_Amended ==
    ~options.per_op_registration =>
        /\ top_env.function_registrations = WhitelistedCodes(GenericPassed)
        /\ \A n \in 1..Len(AllPairs) :
              TypeFileList(AllPairs[n]) = WhitelistedCodes(pair_log[AllPairs[n]].registrations)
        /\ per_op_registrations.is_none

\* the CPU and the CUDA type file each hold their own two registrations, in
\* declaration order, and the shared list holds neither
C16_Witness ==
    /\ pc = "done"
    /\ ~options.per_op_registration
    /\ top_env.function_registrations = <<>>
    /\ Len(TypeFileList(<<"CPU", "Dense">>)) = 2
    /\ TypeFileList(<<"CPU", "Dense">>)[1] > TypeFileList(<<"CPU", "Dense">>)[2]
    /\ Len(TypeFileList(<<"CUDA", "Dense">>)) = 2
    /\ TypeFileList(<<"CUDA", "Dense">>) # TypeFileList(<<"CPU", "Dense">>)

\* the legacy-wrapper pair of backend B
LegacyPaths(B) ==
    {"ATen/LegacyTHFunctions" \o B \o ".h", "ATen/LegacyTHFunctions" \o B \o ".cpp"}

\* every generator of generate_outputs has run
GenerationOver ==
    \/ pc \in {"check_common", "check_cuda", "done"}
    \/ pc = "raised" /\ err \in {"never_written", "undeclared_files"}

\* C17: for every backend whitelist and flag combination, the legacy-wrapper
\* pair LegacyTHFunctions<B>.h/.cpp (B in {CPU, CUDA}) is declared by
\* declare_outputs exactly when generate_outputs writes it, so no run ends
\* with a legacy file declared but never written or written but not declared.
C17_LegacyDeclaredIffWritten ==
    GenerationOver =>
        /\ \A B \in {"CPU", "CUDA"} : \A f \in LegacyPaths(B) : \A p \in Partitions :
              f \in Declared(p) <=> f \in Written(p)
        /\ \A p \in Partitions : \A B \in {"CPU", "CUDA"} :
              /\ LegacyPaths(B) \cap fm[p].filenames = {}
              /\ LegacyPaths(B) \cap Range(fm[p].undeclared_files) = {}

\* the declaration manifest
ManifestPath == "ATen/Declarations.yaml"

\* the generic generator has run: its manifest is written
GenericRan == TimesWritten("common", ManifestPath) = 1

\* some per-backend expansion or aggregation of backend records has happened
BackendWork ==
    \/ type_index > 1
    \/ top_env.type_ids # <<>>
    \/ Len(passed) > Len(GenericPassed)
    \/ \E n \in 1..Len(AllPairs) :
          pair_log[AllPairs[n]].written # {} \/ pair_log[AllPairs[n]].registrations # <<>>

\* C18: in a generation run the generic generator runs exactly once and
\* before the first per-backend expansion; every per-backend expansion and
\* every aggregation of backend records happens after it, and the manifest
\* is written from its output before any backend file is written.
C18_GenericFirst ==
    /\ TimesWritten("common", ManifestPath) <= 1
    /\ (pc \in {"backend_select", "add_op_registrations", "iterate_types",
                 "generate_per_op_registration", "generate_schema_registration",
                 "check_common", "check_cuda", "done"}) => GenericRan
    /\ (pc \in {"declare_outputs", "generate_outputs"}) => ~GenericRan
    /\ BackendWork => GenericRan
    /\ Len(passed) > 0 => GenericRan
    /\ \A i, j \in 1..Len(passed) :
          (i < j /\ passed[j].registration_code \div 10 = 0)
              => passed[i].registration_code \div 10 = 0
    /\ CallsOf("common", "write") # {} =>
          /\ GenericRan
          /\ \A i \in CallsOf("common", "write") : \E j \in 1..i :
                calls["common"][j].op = "write" /\ calls["common"][j].file = ManifestPath
    /\ CallsOf("cuda", "write") # {} => GenericRan
    /\ CallsOf("core", "write") # {} => GenericRan
    /\ GenericRan =>
          /\ output_declarations = postprocess_output_declarations(declarations).declarations
          /\ disk[ManifestPath] = return_names(output_declarations)

\* a completed run: the manifest lists the normalised return names, and both
\* the generic generator and the backends handed over registrations
C18_Witness ==
    /\ pc = "done"
    /\ GenericRan
    /\ disk[ManifestPath] = <<"self", "grad", "out">>
    /\ GenericPassed # <<>>
    /\ Len(passed) > Len(GenericPassed)
    /\ pair_log[<<"CUDA", "Dense">>].written # {}

\* the iteration order of the pairs, as the generator is documented to have
FixedOrder ==
    << <<"CPU", "Dense">>, <<"CPU", "Sparse">>, <<"CPU", "Mkldnn">>,
       <<"CUDA", "Dense">>, <<"CUDA", "Sparse">>,
       <<"QuantizedCPU", "Dense">>, <<"QuantizedCUDA", "Dense">>,
       <<"Vulkan", "Dense">> >>

\* the include lines, in the fixed order, of the pairs generated so far
\* whose backend is one of the given ones
ExpectedHeaders(log, of_backends) ==
    LET generated == SelectSeq(FixedOrder, LAMBDA pair :
                         log[pair].written # {} /\ pair[1] \in of_backends)
    IN [i \in 1..Len(generated) |->
           "#include <ATen/" \o (IF generated[i][2] = "Dense" THEN "" ELSE generated[i][2])
               \o generated[i][1] \o "Type.h>"]

HeadersAsExpected(env, log) ==
    /\ env.cpu_type_headers = ExpectedHeaders(log, {"CPU", "QuantizedCPU", "Vulkan"})
    /\ env.cuda_type_headers = ExpectedHeaders(log, {"CUDA", "QuantizedCUDA"})

IsPrefix(s, t) == Len(s) <= Len(t) /\ SubSeq(t, 1, Len(s)) = s

\* C19: every generated pair appends exactly one include line to exactly one
\* of the two header lists: cpu_type_headers when its DeviceType is CPU or
\* Vulkan, cuda_type_headers when it is CUDA (QuantizedCPU and QuantizedCUDA
\* counting as CPU and CUDA); the lists only grow, and their order is the
\* fixed iteration order restricted to the generated pairs.
C19_TypeHeaders ==
    [][ /\ HeadersAsExpected(top_env, pair_log)
        /\ HeadersAsExpected(top_env', pair_log')
        /\ IsPrefix(top_env.cpu_type_headers, top_env'.cpu_type_headers)
        /\ IsPrefix(top_env.cuda_type_headers, top_env'.cuda_type_headers)
        /\ (pc = "iterate_types" /\ pc' = "generate_per_op_registration") =>
              \A n \in 1..Len(FixedOrder) :
                  pair_log[FixedOrder[n]].written # {} <=> ~SkippedPair(FixedOrder[n])
      ]_vars

\* a completed run over every pair, Vulkan included
C19_Witness ==
    /\ pc = "done"
    /\ top_env.cpu_type_headers =
          << "#include <ATen/CPUType.h>", "#include <ATen/SparseCPUType.h>",
             "#include <ATen/MkldnnCPUType.h>", "#include <ATen/QuantizedCPUType.h>",
             "#include <ATen/VulkanType.h>" >>
    /\ top_env.cuda_type_headers =
          << "#include <ATen/CUDAType.h>", "#include <ATen/SparseCUDAType.h>",
             "#include <ATen/QuantizedCUDAType.h>" >>

\* the partition of a pair's files: cuda for the backends of DeviceType CUDA
PartitionOf(pair) == IF pair[1] \in {"CUDA", "QuantizedCUDA"} THEN "cuda" ELSE "common"

\* C20: for every pair the iteration yields, the partition in which
\* declare_outputs reserves the pair's files is the partition through which
\* generate_storage_type_and_tensor writes them: cuda exactly when the
\* DeviceType is CUDA (backends CUDA and QuantizedCUDA), common otherwise,
\* Vulkan included; no file of a pair is declared in one partition and
\* written through the other.
C20_PartitionRouting ==
    LET declared_in == [p \in Partitions |-> Declared(p)]
        written_in == [p \in Partitions |-> Written(p)]
    IN
    \A n \in 1..Len(FixedOrder) :
        LET pair == FixedOrder[n] IN
        /\ \A f \in pair_log[pair].declared : \A p \in Partitions :
              f \in declared_in[p] <=> p = PartitionOf(pair)
        /\ \A f \in pair_log[pair].written : \A p \in Partitions :
              f \in written_in[p] <=> p = PartitionOf(pair)
        /\ (~SkippedPair(pair) /\ pc # "declare_outputs" /\ err # "will_write") =>
              TypePaths(pair) \subseteq pair_log[pair].declared
        /\ (~SkippedPair(pair) /\ GenerationOver) =>
              TypePaths(pair) \subseteq pair_log[pair].written

\* a completed run in which QuantizedCUDA went through the cuda partition
\* and Vulkan through the common one
C20_Witness ==
    /\ pc = "done"
    /\ TypePaths(<<"QuantizedCUDA", "Dense">>) \subseteq Declared("cuda") \cap Written("cuda")
    /\ TypePaths(<<"Vulkan", "Dense">>) \subseteq Declared("common") \cap Written("common")
    /\ TypePaths(<<"CPU", "Sparse">>) \subseteq Declared("common") \cap Written("common")

====
